---- MODULE Spec2Model ----
(***************************************************************************)
(* Service desk ticketing: the ticket store (tables, triggers and row      *)
(* policies of the schema migration) and the browser clients that create   *)
(* and update tickets through it (TicketForm, TicketDetail, TicketList,    *)
(* App).                                                                   *)
(*                                                                         *)
(* Time is a counter of clock ticks; TicksPerDay ticks make a calendar     *)
(* day and day 0 is 2024-01-01.  Every transaction that writes a row       *)
(* starts at a fresh tick, and NOW() inside it is the tick at which it     *)
(* started (PostgreSQL's now() is the transaction start time).             *)
(* A client request is a transaction of its own: it starts when the        *)
(* handler sends it and takes effect when the handler's await returns.     *)
(***************************************************************************)
EXTENDS Integers, Sequences, FiniteSets, TLC

\* ------------------------------------------------------------- bounds
NumSessions == 2
MaxTickets  == 2
MaxComments == 1
MaxClock    == 3
TicksPerDay == 3
\* the direct caller of the store: rows it may insert, ticks it may use
MaxApiRows  == 5
MaxApiClock == 5
\* the caller of the tickets and comments operations: tickets it may insert,
\* comments it may add, ticks it may use
MaxOpTickets  == 2
MaxOpComments == 2
MaxOpClock    == 5

Sessions == 1..NumSessions

\* ------------------------------------------------------- SQL values
\* SQL NULL of a timestamptz column (resolved_at, closed_at)
NullTime == -1
\* SQL NULL of a text or uuid column (a column the request leaves out)
NullText == "<NULL>"

\* ------------------------------------------------- reference tables
\* categories seeded by the migration: id -> name
Categories ==
  [c \in {"cat-1", "cat-2", "cat-3", "cat-4", "cat-5"} |->
     CASE c = "cat-1" -> "IT Support"
       [] c = "cat-2" -> "HR"
       [] c = "cat-3" -> "Facilities"
       [] c = "cat-4" -> "Finance"
       [] c = "cat-5" -> "General"]

\* priorities seeded by the migration: id -> [name, level]
Priorities ==
  [p \in {"pri-1", "pri-2", "pri-3", "pri-4"} |->
     CASE p = "pri-1" -> [name |-> "Low",      level |-> 1]
       [] p = "pri-2" -> [name |-> "Medium",   level |-> 2]
       [] p = "pri-3" -> [name |-> "High",     level |-> 3]
       [] p = "pri-4" -> [name |-> "Critical", level |-> 4]]

\* statuses seeded by the migration: id -> [name, is_closed]
DefaultStatuses ==
  [s \in {"st-1", "st-2", "st-3", "st-4", "st-5"} |->
     CASE s = "st-1" -> [name |-> "Open",        is_closed |-> FALSE]
       [] s = "st-2" -> [name |-> "In Progress", is_closed |-> FALSE]
       [] s = "st-3" -> [name |-> "Waiting",     is_closed |-> FALSE]
       [] s = "st-4" -> [name |-> "Resolved",    is_closed |-> FALSE]
       [] s = "st-5" -> [name |-> "Closed",      is_closed |-> TRUE]]

\* The seed is INSERT ... ON CONFLICT (name) DO NOTHING: a status row that
\* exists already keeps its flags.  This table has 'Resolved' closing too.
ResolvedClosesStatuses ==
  [s \in DOMAIN DefaultStatuses |->
     IF s = "st-4" THEN [name |-> "Resolved", is_closed |-> TRUE]
     ELSE DefaultStatuses[s]]

\* Likewise a statuses row that exists under another name keeps its name,
\* and nothing seeds 'Open' in its place when the row with that name is
\* renamed afterwards.  This table has no status named 'Open'.
RenamedOpenStatuses ==
  [s \in DOMAIN DefaultStatuses |->
     IF s = "st-1" THEN [name |-> "New", is_closed |-> FALSE]
     ELSE DefaultStatuses[s]]

StatusTables == {DefaultStatuses, ResolvedClosesStatuses, RenamedOpenStatuses}

VARIABLES
  clock,     \* the storage clock: the tick of the latest transaction start
  uuid,      \* ids drawn so far per table; gen_random_uuid() draws the next
  statuses,  \* the statuses table
  tickets,   \* the tickets table: a set of rows
  comments,  \* the ticket_comments table: a set of rows
  app,       \* per session, App and TicketList state
  form,      \* per session, TicketForm state and its request in flight
  detail,    \* per session, TicketDetail state and its request in flight
  api,       \* the last operation of a direct (API) caller and its outcome
  view       \* the page of one App: its tab and the state of the tab's view

vars ==
  <<clock, uuid, statuses, tickets, comments, app, form, detail, api, view>>

\* ------------------------------------------------------------- time
Day(t) == t \div TicksPerDay

RECURSIVE ToText(_)
\* integer::text, for n >= 0
ToText(n) ==
  LET d == n % 10
      c == CASE d = 0 -> "0" [] d = 1 -> "1" [] d = 2 -> "2" [] d = 3 -> "3"
             [] d = 4 -> "4" [] d = 5 -> "5" [] d = 6 -> "6" [] d = 7 -> "7"
             [] d = 8 -> "8" [] d = 9 -> "9"
  IN IF n < 10 THEN c ELSE ToText(n \div 10) \o c

\* TO_CHAR(t, 'YYYYMMDD'); day 0 is 2024-01-01 and the model stays in January
ToCharYYYYMMDD(t) == ToText(20240101 + Day(t))

RECURSIVE Repeat(_, _)
Repeat(fill, n) == IF n <= 0 THEN "" ELSE fill \o Repeat(fill, n - 1)

\* LPAD(str, len, fill): pads on the left, and cuts a longer str to len
LPad(str, len, fill) ==
  IF Len(str) >= len THEN SubSeq(str, 1, len)
  ELSE Repeat(fill, len - Len(str)) \o str

\* str LIKE prefix || '%'
LikePrefix(str, prefix) ==
  /\ str # NullText
  /\ Len(str) >= Len(prefix)
  /\ SubSeq(str, 1, Len(prefix)) = prefix

\* ------------------------------------------------------ the ticket store
\* TicketDefaults with resolved_at given the default of created_at
TicketDefaults_ResolvedNow(req, id, now) ==
  [id              |-> id,
   ticket_number   |-> req.ticket_number,
   title           |-> req.title,
   description     |-> IF req.description = NullText THEN "" ELSE req.description,
   category_id     |-> req.category_id,
   priority_id     |-> req.priority_id,
   status_id       |-> req.status_id,
   requester_name  |-> req.requester_name,
   requester_email |-> req.requester_email,
   assigned_to     |-> "",
   created_at      |-> now,
   updated_at      |-> now,
   resolved_at     |-> now,
   closed_at       |-> NullTime]

\* the columns of a tickets row that a request may leave to their defaults
TicketDefaults(req, id, now) ==
  [id              |-> id,
   ticket_number   |-> req.ticket_number,
   title           |-> req.title,
   description     |-> IF req.description = NullText THEN "" ELSE req.description,
   category_id     |-> req.category_id,
   priority_id     |-> req.priority_id,
   status_id       |-> req.status_id,
   requester_name  |-> req.requester_name,
   requester_email |-> req.requester_email,
   assigned_to     |-> "",
   created_at      |-> now,
   updated_at      |-> now,
   resolved_at     |-> NullTime,
   closed_at       |-> NullTime]

\* GenerateTicketNumber with COUNT(*) in place of COUNT(*) + 1
GenerateTicketNumber_Count(rows, now) ==
  LET date_part    == ToCharYYYYMMDD(now)
      sequence_num ==
        Cardinality({t \in rows :
                       LikePrefix(t.ticket_number, "SD-" \o date_part \o "-")})
  IN "SD-" \o date_part \o "-" \o LPad(ToText(sequence_num), 4, "0")

\* ticket_num := 'SD-' || date_part || '-' || LPAD(sequence_num::text, 4, '0')
TicketNumberOf(date_part, sequence_num) ==
  "SD-" \o date_part \o "-" \o LPad(ToText(sequence_num), 4, "0")

\* generate_ticket_number(), reading the rows the transaction sees
GenerateTicketNumber(rows, now) ==
  LET date_part    == ToCharYYYYMMDD(now)
      sequence_num ==
        Cardinality({t \in rows :
                       LikePrefix(t.ticket_number, "SD-" \o date_part \o "-")}) + 1
  IN TicketNumberOf(date_part, sequence_num)

\* set_ticket_number(), the BEFORE INSERT trigger
SetTicketNumber(new, rows, now) ==
  IF new.ticket_number = NullText \/ new.ticket_number = ""
  THEN [new EXCEPT !.ticket_number = GenerateTicketNumber(rows, now)]
  ELSE new

\* update_updated_at(), the BEFORE UPDATE trigger
UpdateUpdatedAt(new, now) == [new EXCEPT !.updated_at = now]

\* UniqueViolation with the UNIQUE constraint left out of the table
UniqueViolation_Off(new, rows) == FALSE

\* ticket_number text UNIQUE
UniqueViolation(new, rows) ==
  \E t \in rows : t.ticket_number = new.ticket_number

\* TicketConstraintError with a unique index that the insert does not consult
TicketConstraintError_NoUnique(new, rows) ==
  IF \E c \in {new.category_id, new.priority_id, new.status_id} : c = ""
  THEN "invalid_text_representation"
  ELSE IF \E c \in {new.ticket_number, new.title, new.category_id,
                    new.priority_id, new.status_id, new.requester_name,
                    new.requester_email} : c = NullText
  THEN "not_null_violation"
  ELSE IF \/ new.category_id \notin DOMAIN Categories
          \/ new.priority_id \notin DOMAIN Priorities
          \/ new.status_id \notin DOMAIN statuses
  THEN "foreign_key_violation"
  ELSE "none"

\* The constraints of the tickets table on a new row: the uuid columns hold
\* uuids, the NOT NULL columns a value, ticket_number is unique and the
\* three references exist.  "none" when the row is accepted.
TicketConstraintError(new, rows) ==
  IF \E c \in {new.category_id, new.priority_id, new.status_id} : c = ""
  THEN "invalid_text_representation"
  ELSE IF \E c \in {new.ticket_number, new.title, new.category_id,
                    new.priority_id, new.status_id, new.requester_name,
                    new.requester_email} : c = NullText
  THEN "not_null_violation"
  ELSE IF UniqueViolation(new, rows)
  THEN "unique_violation"
  ELSE IF \/ new.category_id \notin DOMAIN Categories
          \/ new.priority_id \notin DOMAIN Priorities
          \/ new.status_id \notin DOMAIN statuses
  THEN "foreign_key_violation"
  ELSE "none"

\* Merge for an update that replaces the row: a column the request does
\* not name goes back to its default
Merge_Put(row, updates) ==
  [c \in DOMAIN row |->
     IF c \in DOMAIN updates THEN updates[c]
     ELSE IF c = "assigned_to" THEN ""
     ELSE IF c \in {"resolved_at", "closed_at"} THEN NullTime
     ELSE row[c]]

\* a row with the columns of <updates> set
Merge(row, updates) ==
  [c \in DOMAIN row |-> IF c \in DOMAIN updates THEN updates[c] ELSE row[c]]

\* UpdateTickets with the numbering trigger fired BEFORE INSERT OR UPDATE
\* and without its test of NEW.ticket_number
UpdateTickets_Renumber(rows, id, updates, now) ==
  {IF t.id = id
   THEN [UpdateUpdatedAt(Merge(t, updates), now)
           EXCEPT !.ticket_number = GenerateTicketNumber(rows, now)]
   ELSE t : t \in rows}

\* UPDATE tickets SET <updates> WHERE id = <id>: the rows after it
UpdateTickets(rows, id, updates, now) ==
  {IF t.id = id THEN UpdateUpdatedAt(Merge(t, updates), now) ELSE t : t \in rows}

\* DELETE FROM tickets WHERE id = <id>, with ticket_comments ON DELETE CASCADE
DeleteTicketRows(rows, id) == {t \in rows : t.id # id}
\* CascadeComments for a foreign key that a delete does not act on
CascadeComments_Keep(crows, id) == crows
\* the comments left by ON DELETE CASCADE
CascadeComments(crows, id) == {c \in crows : c.ticket_id # id}

\* ------------------------------------------------------------ clients
NoTicket == [id |-> 0]
NoRequest == [id |-> 0]

\* App's state, and TicketList's: its tickets and whether a loadTickets the
\* effect on [refreshTrigger] started (at mount, too) is still to answer
InitApp ==
  [refreshTrigger |-> 0, showTicketForm |-> FALSE,
   selectedTicket |-> NoTicket, tickets |-> {}, loadPending |-> TRUE]

\* pc is where the component's handler stands: "idle" (none runs), at its
\* await ("insert", "status", "assign", "comment") or in its alert(), which
\* blocks the page until the user dismisses it; error is what it caught
InitForm ==
  [loading |-> FALSE, pc |-> "idle", row |-> NoRequest, error |-> "none"]
InitDetail ==
  [loading |-> FALSE, pc |-> "idle", id |-> 0, updates |-> <<>>, now |-> 0,
   error |-> "none"]
InitApi == [op |-> "none", at |-> 0, req |-> NoRequest, error |-> "none"]
\* App before its first tab has rendered
InitView == [activeTab |-> "none"]

Init ==
  /\ clock = 0
  /\ uuid = [tickets |-> 0, comments |-> 0]
  /\ statuses = DefaultStatuses
  /\ tickets = {}
  /\ comments = {}
  /\ app = [s \in Sessions |-> InitApp]
  /\ form = [s \in Sessions |-> InitForm]
  /\ detail = [s \in Sessions |-> InitDetail]
  /\ api = InitApi
  /\ view = InitView

\* what the user may have typed into the ticket form
FormInputs ==
  {[title |-> "printer jam", description |-> "tray 2", category_id |-> "cat-1",
    priority_id |-> "pri-2", requester_name |-> "ann",
    requester_email |-> "ann@example.org"],
   [title |-> "badge lost", description |-> "since monday", category_id |-> "cat-2",
    priority_id |-> "pri-1", requester_name |-> "bob",
    requester_email |-> "bob@example.org"]}

\* the inputs of the form are all `required`: the browser submits none empty
RequiredFilled(fd) ==
  \A f \in {fd.title, fd.description, fd.category_id, fd.priority_id,
            fd.requester_name, fd.requester_email} : f # ""

\* statuses.select('id').eq('name', 'Open').maybeSingle()
OpenStatusIds == {i \in DOMAIN statuses : statuses[i].name = "Open"}

\* a request may also be lost to the storage being unreachable
Faults == {"none", "unavailable"}

\* an alert() is open in the session's page: nothing else runs there
Blocked(s) == form[s].pc = "alert" \/ detail[s].pc = "alert"

\* DismissAlert for a handleSubmit without its finally block
DismissAlert_NoFinally(s) ==
  /\ Blocked(s)
  /\ form' = [form EXCEPT ![s] =
        IF form[s].pc = "alert" THEN [InitForm EXCEPT !.loading = TRUE] ELSE @]
  /\ detail' = [detail EXCEPT ![s] =
        IF detail[s].pc = "alert" THEN InitDetail ELSE @]
  /\ UNCHANGED <<clock, uuid, statuses, tickets, comments, app, api, view>>

\* the user dismisses the alert; the handler goes on to setLoading(false)
DismissAlert(s) ==
  /\ Blocked(s)
  /\ form' = [form EXCEPT ![s] = IF form[s].pc = "alert" THEN InitForm ELSE @]
  /\ detail' = [detail EXCEPT ![s] =
        IF detail[s].pc = "alert" THEN InitDetail ELSE @]
  /\ UNCHANGED <<clock, uuid, statuses, tickets, comments, app, api, view>>

\* App: the New Ticket button
OpenTicketForm(s) ==
  /\ ~Blocked(s)
  /\ ~app[s].showTicketForm
  /\ app[s].selectedTicket = NoTicket
  /\ form[s].pc = "idle"
  /\ app' = [app EXCEPT ![s].showTicketForm = TRUE]
  /\ form' = [form EXCEPT ![s] = InitForm]
  /\ UNCHANGED <<clock, uuid, statuses, tickets, comments, detail, api, view>>

\* TicketForm: the X and Cancel buttons (a request in flight is not recalled)
CloseTicketForm(s) ==
  /\ ~Blocked(s)
  /\ app[s].showTicketForm
  /\ app' = [app EXCEPT ![s].showTicketForm = FALSE]
  /\ UNCHANGED <<clock, uuid, statuses, tickets, comments, form, detail, api, view>>

\* TicketForm.handleSubmit up to its insert: the Open status is looked up
\* and the insert is sent; its transaction starts and the BEFORE INSERT
\* trigger numbers the row from the rows committed so far.
HandleSubmit(s, fd) ==
  /\ ~Blocked(s)
  /\ app[s].showTicketForm
  /\ form[s].pc = "idle" /\ ~form[s].loading
  /\ RequiredFilled(fd)
  /\ IF OpenStatusIds = {}
     THEN /\ form' = [form EXCEPT ![s] =
                [loading |-> TRUE, pc |-> "alert", row |-> NoRequest,
                 error |-> "no_open_status"]]
          /\ UNCHANGED <<clock, uuid>>
     ELSE /\ clock < MaxClock /\ uuid.tickets < MaxTickets
          /\ clock' = clock + 1
          /\ uuid' = [uuid EXCEPT !.tickets = @ + 1]
          /\ LET openStatus == CHOOSE i \in OpenStatusIds : TRUE
                 req == [title |-> fd.title, description |-> fd.description,
                         category_id |-> fd.category_id,
                         priority_id |-> fd.priority_id,
                         requester_name |-> fd.requester_name,
                         requester_email |-> fd.requester_email,
                         status_id |-> openStatus, ticket_number |-> ""]
                 new == SetTicketNumber(TicketDefaults(req, uuid'.tickets, clock'),
                                        tickets, clock')
             IN form' = [form EXCEPT ![s] =
                   [loading |-> TRUE, pc |-> "insert", row |-> new,
                    error |-> "none"]]
  /\ UNCHANGED <<statuses, tickets, comments, app, detail, api, view>>

\* App.handleTicketCreated; the new refreshTrigger makes TicketList reload
HandleTicketCreated(a) ==
  [a EXCEPT !.refreshTrigger = @ + 1, !.loadPending = TRUE]

\* TicketForm.handleSubmit from the insert's answer on: the row is checked
\* against the table as it is now and stored, or the insert fails.
SubmitResponse(s, fault) ==
  /\ ~Blocked(s)
  /\ form[s].pc = "insert"
  /\ LET new == form[s].row
         error == IF fault # "none" THEN fault
                  ELSE TicketConstraintError(new, tickets)
     IN IF error = "none"
        THEN /\ tickets' = tickets \cup {new}
             /\ app' = [app EXCEPT ![s] =
                   [HandleTicketCreated(app[s]) EXCEPT !.showTicketForm = FALSE]]
             /\ form' = [form EXCEPT ![s] = InitForm]
        ELSE /\ form' = [form EXCEPT ![s] =
                   [loading |-> TRUE, pc |-> "alert", row |-> new,
                    error |-> error]]
             /\ UNCHANGED <<tickets, app>>
  /\ UNCHANGED <<clock, uuid, statuses, comments, detail, api, view>>

\* TicketList.loadTickets: the answer to select(*) replaces the list
LoadTickets(s) ==
  /\ ~Blocked(s)
  /\ app[s].loadPending
  /\ app' = [app EXCEPT ![s].tickets = tickets, ![s].loadPending = FALSE]
  /\ UNCHANGED <<clock, uuid, statuses, tickets, comments, form, detail, api, view>>

\* TicketList row click: App.setSelectedTicket(ticket), TicketDetail mounts
\* on the row as the list holds it
OpenDetail(s, t) ==
  /\ ~Blocked(s)
  /\ t \in app[s].tickets
  /\ app[s].selectedTicket = NoTicket
  /\ ~app[s].showTicketForm
  /\ detail[s].pc = "idle"
  /\ app' = [app EXCEPT ![s].selectedTicket = t]
  /\ detail' = [detail EXCEPT ![s] = InitDetail]
  /\ UNCHANGED <<clock, uuid, statuses, tickets, comments, form, api, view>>

\* TicketDetail: the X button
CloseDetail(s) ==
  /\ ~Blocked(s)
  /\ app[s].selectedTicket # NoTicket
  /\ app' = [app EXCEPT ![s].selectedTicket = NoTicket]
  /\ UNCHANGED <<clock, uuid, statuses, tickets, comments, form, detail, api, view>>

\* StatusUpdates with the closed_at check as the else of the resolved_at check
StatusUpdates_ElseIf(ticket, newStatusId, stamp) ==
  LET newStatus == statuses[newStatusId]
      stamps    == IF newStatus.name = "Resolved" /\ ticket.resolved_at = NullTime
                   THEN "resolved_at" :> stamp
                   ELSE IF newStatus.is_closed /\ ticket.closed_at = NullTime
                   THEN "closed_at" :> stamp ELSE <<>>
  IN ("status_id" :> newStatusId) @@ stamps

\* StatusUpdates that sets the status and no timestamp
StatusUpdates_StatusOnly(ticket, newStatusId, stamp) ==
  "status_id" :> newStatusId

\* the `updates` object handleStatusChange builds from the ticket prop
StatusUpdates(ticket, newStatusId, stamp) ==
  LET newStatus == statuses[newStatusId]
      resolved  == IF newStatus.name = "Resolved" /\ ticket.resolved_at = NullTime
                   THEN "resolved_at" :> stamp ELSE <<>>
      closed    == IF newStatus.is_closed /\ ticket.closed_at = NullTime
                   THEN "closed_at" :> stamp ELSE <<>>
  IN ("status_id" :> newStatusId) @@ resolved @@ closed

\* TicketDetail.handleStatusChange up to its update: `updates` is built from
\* the ticket prop and the browser's clock, and the update is sent
HandleStatusChange(s, newStatusId) ==
  /\ ~Blocked(s)
  /\ app[s].selectedTicket # NoTicket
  /\ detail[s].pc = "idle" /\ ~detail[s].loading
  /\ newStatusId \in DOMAIN statuses
  /\ newStatusId # app[s].selectedTicket.status_id
  /\ clock < MaxClock
  /\ clock' = clock + 1
  /\ detail' = [detail EXCEPT ![s] =
        [loading |-> TRUE, pc |-> "status", id |-> app[s].selectedTicket.id,
         updates |-> StatusUpdates(app[s].selectedTicket, newStatusId, clock'),
         now |-> clock', error |-> "none"]]
  /\ UNCHANGED <<uuid, statuses, tickets, comments, app, form, api, view>>

\* names typed into the Assigned To input
Assignees == {"", "dana"}

\* HandleAssignmentChange for an Update button that `loading` leaves enabled
HandleAssignmentChange_Unguarded(s, assignedTo) ==
  /\ ~Blocked(s)
  /\ app[s].selectedTicket # NoTicket
  /\ assignedTo # app[s].selectedTicket.assigned_to
  /\ clock < MaxClock
  /\ clock' = clock + 1
  /\ detail' = [detail EXCEPT ![s] =
        [loading |-> TRUE, pc |-> "assign", id |-> app[s].selectedTicket.id,
         updates |-> ("assigned_to" :> assignedTo),
         now |-> clock', error |-> "none"]]
  /\ UNCHANGED <<uuid, statuses, tickets, comments, app, form, api, view>>

\* TicketDetail.handleAssignmentChange up to its update
HandleAssignmentChange(s, assignedTo) ==
  /\ ~Blocked(s)
  /\ app[s].selectedTicket # NoTicket
  /\ detail[s].pc = "idle" /\ ~detail[s].loading
  /\ assignedTo # app[s].selectedTicket.assigned_to
  /\ clock < MaxClock
  /\ clock' = clock + 1
  /\ detail' = [detail EXCEPT ![s] =
        [loading |-> TRUE, pc |-> "assign", id |-> app[s].selectedTicket.id,
         updates |-> ("assigned_to" :> assignedTo),
         now |-> clock', error |-> "none"]]
  /\ UNCHANGED <<uuid, statuses, tickets, comments, app, form, api, view>>

\* HandleTicketUpdated without setSelectedTicket(null)
HandleTicketUpdated_KeepOpen(a) ==
  [a EXCEPT !.refreshTrigger = @ + 1, !.loadPending = TRUE]

\* App.handleTicketUpdated; the new refreshTrigger makes TicketList reload
HandleTicketUpdated(a) ==
  [a EXCEPT !.refreshTrigger = @ + 1, !.selectedTicket = NoTicket,
            !.loadPending = TRUE]

\* handleStatusChange and handleAssignmentChange from the update's answer on
UpdateResponse(s, fault) ==
  /\ ~Blocked(s)
  /\ detail[s].pc \in {"status", "assign"}
  /\ IF fault = "none"
     THEN /\ tickets' = UpdateTickets(tickets, detail[s].id, detail[s].updates,
                                      detail[s].now)
          /\ app' = [app EXCEPT ![s] = HandleTicketUpdated(app[s])]
          /\ detail' = [detail EXCEPT ![s] = InitDetail]
     ELSE /\ detail' = [detail EXCEPT ![s] =
                [InitDetail EXCEPT !.loading = TRUE, !.pc = "alert",
                                   !.error = fault]]
          /\ UNCHANGED <<tickets, app>>
  /\ UNCHANGED <<clock, uuid, statuses, comments, form, api, view>>

RECURSIVE Trim(_)
\* String.prototype.trim, for the blanks the model types
Trim(str) ==
  IF str = "" THEN ""
  ELSE IF SubSeq(str, 1, 1) = " " THEN Trim(SubSeq(str, 2, Len(str)))
  ELSE IF SubSeq(str, Len(str), Len(str)) = " "
  THEN Trim(SubSeq(str, 1, Len(str) - 1))
  ELSE str

\* what the user may have typed into the comment form
CommentInputs ==
  {[comment |-> "rebooted it", author |-> "dana"],
   [comment |-> "  ", author |-> "dana"],
   [comment |-> "rebooted it", author |-> ""]}

\* TicketDetail.handleAddComment up to its insert
HandleAddComment(s, c) ==
  /\ ~Blocked(s)
  /\ app[s].selectedTicket # NoTicket
  /\ detail[s].pc = "idle" /\ ~detail[s].loading
  /\ IF Trim(c.comment) = "" \/ Trim(c.author) = ""
     THEN UNCHANGED <<clock, uuid, detail>>
     ELSE /\ clock < MaxClock /\ uuid.comments < MaxComments
          /\ clock' = clock + 1
          /\ uuid' = [uuid EXCEPT !.comments = @ + 1]
          /\ detail' = [detail EXCEPT ![s] =
                [loading |-> TRUE, pc |-> "comment",
                 id |-> app[s].selectedTicket.id,
                 updates |-> [id |-> uuid'.comments,
                              ticket_id |-> app[s].selectedTicket.id,
                              comment |-> c.comment, author_name |-> c.author,
                              is_internal |-> FALSE, created_at |-> clock'],
                 now |-> clock', error |-> "none"]]
  /\ UNCHANGED <<statuses, tickets, comments, app, form, api, view>>

\* ticket_id uuid REFERENCES tickets(id)
CommentConstraintError(new, rows) ==
  IF \A t \in rows : t.id # new.ticket_id THEN "foreign_key_violation"
  ELSE "none"

\* CommentResponse with onUpdate() called after a comment is added
CommentResponse_Refresh(s, fault) ==
  /\ ~Blocked(s)
  /\ detail[s].pc = "comment"
  /\ LET new == detail[s].updates
         error == IF fault # "none" THEN fault
                  ELSE CommentConstraintError(new, tickets)
     IN IF error = "none"
        THEN /\ comments' = comments \cup {new}
             /\ app' = [app EXCEPT ![s] = HandleTicketUpdated(app[s])]
             /\ detail' = [detail EXCEPT ![s] = InitDetail]
        ELSE /\ detail' = [detail EXCEPT ![s] =
                   [InitDetail EXCEPT !.loading = TRUE, !.pc = "alert",
                                      !.error = error]]
             /\ UNCHANGED <<comments, app>>
  /\ UNCHANGED <<clock, uuid, statuses, tickets, form, api, view>>

\* TicketDetail.handleAddComment from the insert's answer on
CommentResponse(s, fault) ==
  /\ ~Blocked(s)
  /\ detail[s].pc = "comment"
  /\ LET new == detail[s].updates
         error == IF fault # "none" THEN fault
                  ELSE CommentConstraintError(new, tickets)
     IN IF error = "none"
        THEN /\ comments' = comments \cup {new}
             /\ detail' = [detail EXCEPT ![s] = InitDetail]
        ELSE /\ detail' = [detail EXCEPT ![s] =
                   [InitDetail EXCEPT !.loading = TRUE, !.pc = "alert",
                                      !.error = error]]
             /\ UNCHANGED comments
  /\ UNCHANGED <<clock, uuid, statuses, tickets, app, form, api, view>>

\* midnight passes
NextDay ==
  /\ (Day(clock) + 1) * TicksPerDay <= MaxClock
  /\ clock' = (Day(clock) + 1) * TicksPerDay
  /\ UNCHANGED <<uuid, statuses, tickets, comments, app, form, detail, api, view>>

Next ==
  \/ \E s \in Sessions : DismissAlert(s)
  \/ \E s \in Sessions : OpenTicketForm(s)
  \/ \E s \in Sessions : CloseTicketForm(s)
  \/ \E s \in Sessions, fd \in FormInputs : HandleSubmit(s, fd)
  \/ \E s \in Sessions, fault \in Faults : SubmitResponse(s, fault)
  \/ \E s \in Sessions : LoadTickets(s)
  \/ \E s \in Sessions : \E t \in app[s].tickets : OpenDetail(s, t)
  \/ \E s \in Sessions : CloseDetail(s)
  \/ \E s \in Sessions, st \in DOMAIN statuses : HandleStatusChange(s, st)
  \/ \E s \in Sessions, a \in Assignees : HandleAssignmentChange(s, a)
  \/ \E s \in Sessions, fault \in Faults : UpdateResponse(s, fault)
  \/ \E s \in Sessions, c \in CommentInputs : HandleAddComment(s, c)
  \/ \E s \in Sessions, fault \in Faults : CommentResponse(s, fault)
  \/ NextDay

Spec == Init /\ [][Next]_vars

\* The statuses table may differ from the seed (see ResolvedClosesStatuses)
InitAdmin ==
  /\ statuses \in StatusTables
  /\ clock = 0
  /\ uuid = [tickets |-> 0, comments |-> 0]
  /\ tickets = {}
  /\ comments = {}
  /\ app = [s \in Sessions |-> InitApp]
  /\ form = [s \in Sessions |-> InitForm]
  /\ detail = [s \in Sessions |-> InitDetail]
  /\ api = InitApi
  /\ view = InitView

SpecAdmin == InitAdmin /\ [][Next]_vars

\* --------------------------------------------- the store, called directly
\* The row policies let anyone insert and delete tickets: one caller that
\* uses the store's API directly, one request after the other.
ValidRequest ==
  [title |-> "vpn down", description |-> NullText, category_id |-> "cat-1",
   priority_id |-> "pri-3", status_id |-> "st-1", requester_name |-> "eve",
   requester_email |-> "eve@example.org", ticket_number |-> NullText]

ApiRequests ==
  {ValidRequest,
   [ValidRequest EXCEPT !.ticket_number = ""],
   [ValidRequest EXCEPT !.ticket_number = "SD-20240102-0002"],
   [ValidRequest EXCEPT !.ticket_number = "HELP-7"],
   [ValidRequest EXCEPT !.category_id = "cat-9"],
   [ValidRequest EXCEPT !.category_id = ""],
   [ValidRequest EXCEPT !.priority_id = "pri-9"],
   [ValidRequest EXCEPT !.title = ""],
   [ValidRequest EXCEPT !.title = NullText],
   [ValidRequest EXCEPT !.requester_name = ""],
   [ValidRequest EXCEPT !.requester_email = ""]}

\* insert into tickets, as one transaction
ApiInsertTicket(req) ==
  /\ clock < MaxApiClock /\ uuid.tickets < MaxApiRows
  /\ clock' = clock + 1
  /\ uuid' = [uuid EXCEPT !.tickets = @ + 1]
  /\ LET new == SetTicketNumber(TicketDefaults(req, uuid'.tickets, clock'),
                                tickets, clock')
         error == TicketConstraintError(new, tickets)
     IN /\ tickets' = IF error = "none" THEN tickets \cup {new} ELSE tickets
        /\ api' = [op |-> "insert", at |-> clock', req |-> req, error |-> error]
  /\ UNCHANGED <<statuses, comments, app, form, detail, view>>

\* delete from tickets where id = <id>
ApiDeleteTicket(id) ==
  /\ \E t \in tickets : t.id = id
  /\ tickets' = DeleteTicketRows(tickets, id)
  /\ comments' = CascadeComments(comments, id)
  /\ api' = [op |-> "delete", at |-> clock, req |-> [id |-> id], error |-> "none"]
  /\ UNCHANGED <<clock, uuid, statuses, app, form, detail, view>>

NextStore ==
  \/ \E req \in ApiRequests : ApiInsertTicket(req)
  \/ \E id \in 1..MaxApiRows : ApiDeleteTicket(id)

SpecStore == Init /\ [][NextStore]_vars

\* ------------------------------------------------ a day of many tickets
\* The numbering reads one thing of the table, the count of the rows
\* numbered for the day, and the UNIQUE constraint reads their numbers.
\* Creates that follow one another on a day with no delete number the
\* rows 1, 2, ... in turn, so the table of such a day is told by its count:
\* api.req.count rows, row k carrying TicketNumberOf(day, k).
\* the counts the day starts from
MinDayCount == 9900
MaxDayCount == 9999
\* creates the model adds to a day
MaxDayCreates == 3

InitBusyDay ==
  /\ clock = 0
  /\ uuid = [tickets |-> 0, comments |-> 0]
  /\ statuses = DefaultStatuses
  /\ tickets = {}
  /\ comments = {}
  /\ app = [s \in Sessions |-> InitApp]
  /\ form = [s \in Sessions |-> InitForm]
  /\ detail = [s \in Sessions |-> InitDetail]
  /\ \E n \in MinDayCount..MaxDayCount :
       api = [op |-> "none", at |-> 0, req |-> [count |-> n, ticket_number |-> ""],
              error |-> "none"]
  /\ view = InitView

\* the table of the busy day has a row with this number
BusyDayHas(count, number) ==
  \E k \in 1..count : TicketNumberOf(ToCharYYYYMMDD(0), k) = number

\* one more create on the busy day: set_ticket_number() numbers the row
\* from the count, and the row is stored unless its number is taken
BusyDayCreate ==
  /\ uuid.tickets < MaxDayCreates
  /\ uuid' = [uuid EXCEPT !.tickets = @ + 1]
  /\ LET count  == api.req.count
         number == TicketNumberOf(ToCharYYYYMMDD(0), count + 1)
         error  == IF BusyDayHas(count, number) THEN "unique_violation"
                   ELSE "none"
     IN api' = [op |-> "insert", at |-> 0,
                req |-> [count |-> IF error = "none" THEN count + 1 ELSE count,
                         ticket_number |-> number],
                error |-> error]
  /\ UNCHANGED <<clock, statuses, tickets, comments, app, form, detail, view>>

NextBusyDay == BusyDayCreate

SpecBusyDay == InitBusyDay /\ [][NextBusyDay]_vars

\* ----------------------------------------- tickets and their comments
\* what a caller may ask a ticket's status to become
StatusRequests == {"st-2", "st-4", "st-9"}

\* update tickets set status_id = <st> where id = <id>, as one transaction:
\* the rows that match are written, and the answer carries an error only
\* if writing one of them broke a constraint
ApiUpdateTicket(id, st) ==
  /\ clock < MaxOpClock
  /\ clock' = clock + 1
  /\ LET matched == {t \in tickets : t.id = id}
         error   == IF matched # {} /\ st \notin DOMAIN statuses
                    THEN "foreign_key_violation" ELSE "none"
     IN /\ tickets' = IF error = "none"
                      THEN UpdateTickets(tickets, id, [status_id |-> st], clock')
                      ELSE tickets
        /\ api' = [op |-> "update", at |-> clock',
                   req |-> [id |-> id, status_id |-> st], error |-> error]
  /\ UNCHANGED <<uuid, statuses, comments, app, form, detail, view>>

\* TicketDetail.handleAddComment from the submit to its end, for the ticket
\* of id: error is what the handler reported ("none" when it reported
\* nothing)
AddComment(id, c) ==
  IF Trim(c.comment) = "" \/ Trim(c.author) = ""
  THEN /\ api' = [op |-> "addComment", at |-> clock,
                  req |-> [ticket_id |-> id, comment |-> c.comment,
                           author_name |-> c.author],
                  error |-> "none"]
       /\ UNCHANGED <<clock, uuid, statuses, tickets, comments, app, form,
                      detail, view>>
  ELSE /\ clock < MaxOpClock /\ uuid.comments < MaxOpComments
       /\ clock' = clock + 1
       /\ uuid' = [uuid EXCEPT !.comments = @ + 1]
       /\ LET new == [id |-> uuid'.comments, ticket_id |-> id,
                      comment |-> c.comment, author_name |-> c.author,
                      is_internal |-> FALSE, created_at |-> clock']
              error == CommentConstraintError(new, tickets)
          IN /\ comments' = IF error = "none" THEN comments \cup {new}
                            ELSE comments
             /\ api' = [op |-> "addComment", at |-> clock',
                        req |-> [ticket_id |-> id, comment |-> c.comment,
                                 author_name |-> c.author],
                        error |-> error]
       /\ UNCHANGED <<statuses, tickets, app, form, detail, view>>

\* a ticket created through the form's insert, by the same caller
OpInsertTicket ==
  /\ uuid.tickets < MaxOpTickets
  /\ ApiInsertTicket([ValidRequest EXCEPT !.ticket_number = ""])

NextOps ==
  \/ OpInsertTicket
  \/ \E id \in 1..(MaxOpTickets + 1) : ApiDeleteTicket(id)
  \/ \E id \in 1..(MaxOpTickets + 1), st \in StatusRequests :
       ApiUpdateTicket(id, st)
  \/ \E id \in 1..(MaxOpTickets + 1), c \in CommentInputs : AddComment(id, c)

SpecOps == Init /\ [][NextOps]_vars

\* ------------------------------------------------- views of the tickets
\* An instant of a loaded ticket (an ISO string of created_at, resolved_at,
\* closed_at) is counted in minutes since 2024-01-01T00:00Z.
MinutesPerDay == 1440
\* getTime() is kept in seconds: the instants here are whole minutes, and
\* the 1000 * 60 * 60 of the views becomes the seconds of an hour
SecondsPerMinute == 60
SecondsPerHour == 3600
Iso(day, hh, mm) == day * MinutesPerDay + hh * 60 + mm

\* new Date(<timestamp>).getTime(), in seconds since 2024-01-01T00:00Z
GetTime(ts) == ts * SecondsPerMinute

\* the value of a decimal digit
Digit(c) == CHOOSE d \in 0..9 : SubSeq("0123456789", d + 1, d + 1) = c

\* days of 2024 before the first of month m
DaysBeforeMonth == <<0, 31, 60, 91, 121, 152, 182, 213, 244, 274, 305, 335>>

\* new Date("2024-MM-DD"), the value of a date input: midnight UTC of that
\* day, as an instant
NewDate(str) ==
  LET mm == Digit(SubSeq(str, 6, 6)) * 10 + Digit(SubSeq(str, 7, 7))
      dd == Digit(SubSeq(str, 9, 9)) * 10 + Digit(SubSeq(str, 10, 10))
  IN (DaysBeforeMonth[mm] + dd - 1) * MinutesPerDay

\* Math.round(num / den) for den > 0: the nearest integer, halves upward
MathRound(num, den) == (2 * num + den) \div (2 * den)

UpperCase == "ABCDEFGHIJKLMNOPQRSTUVWXYZ"
LowerCase == "abcdefghijklmnopqrstuvwxyz"

RECURSIVE ToLowerCase(_)
\* String.prototype.toLowerCase
ToLowerCase(str) ==
  IF str = "" THEN ""
  ELSE LET c == SubSeq(str, 1, 1)
           l == IF \E i \in 1..26 : SubSeq(UpperCase, i, i) = c
                THEN LET i == CHOOSE i \in 1..26 : SubSeq(UpperCase, i, i) = c
                     IN SubSeq(LowerCase, i, i)
                ELSE c
       IN l \o ToLowerCase(SubSeq(str, 2, Len(str)))

\* String.prototype.includes
Includes(str, term) ==
  \E i \in 1..(Len(str) - Len(term) + 1) :
    SubSeq(str, i, i + Len(term) - 1) = term

\* a ticket as the views' select answers it: the row joined with the names
\* of its category, priority and status
Loaded(id, number, title, description, cat, pri, st, requester, created, resolved, closed) ==
  [id |-> id, ticket_number |-> number, title |-> title,
   description |-> description, category_id |-> cat, priority_id |-> pri,
   status_id |-> st, requester_name |-> requester,
   categories |-> Categories[cat], priorities |-> Priorities[pri].name,
   statuses |-> DefaultStatuses[st].name,
   created_at |-> created, resolved_at |-> resolved, closed_at |-> closed]

\* tickets the store may hold: resolved after 2, 4 and 6 hours and after 20
\* minutes, one of them closed since, one taken up again, and one still open
SampleTickets ==
  {Loaded(1, "SD-20240101-0001", "Printer jam", "tray 2", "cat-1", "pri-2",
          "st-4", "Ann", Iso(0, 9, 0), Iso(0, 11, 0), NullTime),
   Loaded(2, "SD-20240115-0001", "Badge lost", "since monday", "cat-2",
          "pri-1", "st-5", "Bob", Iso(14, 10, 0), Iso(14, 14, 0),
          Iso(14, 15, 0)),
   Loaded(3, "SD-20240201-0001", "VPN down", "printer vlan too", "cat-1",
          "pri-3", "st-2", "Eve", Iso(31, 8, 0), Iso(31, 14, 0), NullTime),
   Loaded(4, "SD-20240131-0001", "Password reset", "", "cat-1", "pri-2",
          "st-4", "Joanna", Iso(30, 10, 0), Iso(30, 10, 20), NullTime),
   Loaded(5, "SD-20240110-0001", "New laptop", "for ann", "cat-3", "pri-1",
          "st-1", "Dan", Iso(9, 12, 0), NullTime, NullTime)}

RECURSIVE OrderByCreatedAtDesc(_)
\* .order('created_at', { ascending: false })
OrderByCreatedAtDesc(rows) ==
  IF rows = {} THEN <<>>
  ELSE LET first == CHOOSE t \in rows :
                      \A u \in rows : u.created_at <= t.created_at
       IN <<first>> \o OrderByCreatedAtDesc(rows \ {first})

\* the answers the select may give
Snapshots == {OrderByCreatedAtDesc(rows) : rows \in SUBSET SampleTickets}

\* FilterTickets with the ticket's fields compared as they are written
FilterTickets_CaseSensitive(list, searchTerm, selectedCategory, selectedPriority, selectedStatus) ==
  LET term == ToLowerCase(searchTerm)
      f1 == IF searchTerm # ""
            THEN SelectSeq(list, LAMBDA ticket :
                   \/ Includes(ticket.ticket_number, term)
                   \/ Includes(ticket.title, term)
                   \/ Includes(ticket.description, term)
                   \/ Includes(ticket.requester_name, term))
            ELSE list
      f2 == IF selectedCategory # ""
            THEN SelectSeq(f1, LAMBDA ticket :
                   ticket.category_id = selectedCategory)
            ELSE f1
      f3 == IF selectedPriority # ""
            THEN SelectSeq(f2, LAMBDA ticket :
                   ticket.priority_id = selectedPriority)
            ELSE f2
  IN IF selectedStatus # ""
     THEN SelectSeq(f3, LAMBDA ticket : ticket.status_id = selectedStatus)
     ELSE f3

\* TicketList.filterTickets
FilterTickets(list, searchTerm, selectedCategory, selectedPriority, selectedStatus) ==
  LET term == ToLowerCase(searchTerm)
      f1 == IF searchTerm # ""
            THEN SelectSeq(list, LAMBDA ticket :
                   \/ Includes(ToLowerCase(ticket.ticket_number), term)
                   \/ Includes(ToLowerCase(ticket.title), term)
                   \/ Includes(ToLowerCase(ticket.description), term)
                   \/ Includes(ToLowerCase(ticket.requester_name), term))
            ELSE list
      f2 == IF selectedCategory # ""
            THEN SelectSeq(f1, LAMBDA ticket :
                   ticket.category_id = selectedCategory)
            ELSE f1
      f3 == IF selectedPriority # ""
            THEN SelectSeq(f2, LAMBDA ticket :
                   ticket.priority_id = selectedPriority)
            ELSE f2
  IN IF selectedStatus # ""
     THEN SelectSeq(f3, LAMBDA ticket : ticket.status_id = selectedStatus)
     ELSE f3

\* FilterTicketsByDate with the end bound moved to the last minute of its day
FilterTicketsByDate_EndOfDay(list, startDate, endDate) ==
  IF startDate = "" /\ endDate = "" THEN list
  ELSE SelectSeq(list, LAMBDA ticket :
         LET ticketDate == ticket.created_at
             endOfDay   == NewDate(endDate) + MinutesPerDay - 1
         IN IF startDate # "" /\ endDate # ""
            THEN ticketDate >= NewDate(startDate) /\ ticketDate <= endOfDay
            ELSE IF startDate # "" THEN ticketDate >= NewDate(startDate)
            ELSE IF endDate # "" THEN ticketDate <= endOfDay
            ELSE TRUE)

\* Reports.filterTicketsByDate
FilterTicketsByDate(list, startDate, endDate) ==
  IF startDate = "" /\ endDate = "" THEN list
  ELSE SelectSeq(list, LAMBDA ticket :
         LET ticketDate == ticket.created_at
         IN IF startDate # "" /\ endDate # ""
            THEN ticketDate >= NewDate(startDate) /\ ticketDate <= NewDate(endDate)
            ELSE IF startDate # "" THEN ticketDate >= NewDate(startDate)
            ELSE IF endDate # "" THEN ticketDate <= NewDate(endDate)
            ELSE TRUE)

RECURSIVE SumResolution(_)
\* resolvedTickets.reduce((sum, ticket) => sum + (resolved - created), 0)
SumResolution(list) ==
  IF list = <<>> THEN 0
  ELSE SumResolution(SubSeq(list, 1, Len(list) - 1))
       + (GetTime(list[Len(list)].resolved_at)
          - GetTime(list[Len(list)].created_at))

\* CountBy with a key for every name of the reference table
CountBy_AllNames(list, field) ==
  [name \in {list[i][field] : i \in 1..Len(list)}
            \cup {Categories[c] : c \in DOMAIN Categories} |->
     Len(SelectSeq(list, LAMBDA t : t[field] = name))]

\* the counts per name that the forEach of a view collects
CountBy(list, field) ==
  [name \in {list[i][field] : i \in 1..Len(list)} |->
     Len(SelectSeq(list, LAMBDA t : t[field] = name))]

\* Reports.calculateMetrics over the date-filtered tickets
CalculateMetrics(filteredTickets) ==
  LET resolvedTickets ==
        SelectSeq(filteredTickets, LAMBDA t : t.resolved_at # NullTime)
  IN [total      |-> Len(filteredTickets),
      resolved   |-> Len(SelectSeq(filteredTickets, LAMBDA t : t.resolved_at # NullTime)),
      closed     |-> Len(SelectSeq(filteredTickets, LAMBDA t : t.closed_at # NullTime)),
      open       |-> Len(SelectSeq(filteredTickets, LAMBDA t : t.statuses = "Open")),
      inProgress |-> Len(SelectSeq(filteredTickets,
                              LAMBDA t : t.statuses = "In Progress")),
      avgResolutionHours |->
        IF Len(resolvedTickets) > 0
        THEN MathRound(SumResolution(resolvedTickets),
                       SecondsPerHour * Len(resolvedTickets))
        ELSE 0,
      byCategory |-> CountBy(filteredTickets, "categories"),
      byPriority |-> CountBy(filteredTickets, "priorities")]

\* Reports: what the Avg Resolution card shows
AvgResolutionCard(metrics) ==
  IF metrics.avgResolutionHours > 0
  THEN ToText(metrics.avgResolutionHours) \o "h" ELSE "N/A"

\* Reports: the percentages of the Summary
ReportsResolutionRate(metrics) ==
  IF metrics.total > 0 THEN MathRound(metrics.resolved * 100, metrics.total)
  ELSE 0
ReportsClosureRate(metrics) ==
  IF metrics.total > 0 THEN MathRound(metrics.closed * 100, metrics.total)
  ELSE 0

\* the stats Dashboard.loadDashboardData sets from the tickets it loaded
DashboardStats(list) ==
  LET resolvedTickets == SelectSeq(list, LAMBDA t : t.resolved_at # NullTime)
  IN [total      |-> Len(list),
      open       |-> Len(SelectSeq(list, LAMBDA t : t.statuses = "Open")),
      inProgress |-> Len(SelectSeq(list, LAMBDA t : t.statuses = "In Progress")),
      resolved   |-> Len(SelectSeq(list, LAMBDA t : t.statuses = "Resolved")),
      closed     |-> Len(SelectSeq(list, LAMBDA t : t.statuses = "Closed")),
      byCategory |-> CountBy(list, "categories"),
      byPriority |-> CountBy(list, "priorities"),
      avgResolutionTime |->
        IF Len(resolvedTickets) > 0
        THEN ToText(MathRound(SumResolution(resolvedTickets),
                              Len(resolvedTickets) * SecondsPerHour))
             \o " hours"
        ELSE "N/A"]

\* Dashboard: the percentage of Performance Metrics
DashboardResolutionRate(stats) ==
  IF stats.total > 0
  THEN MathRound((stats.resolved + stats.closed) * 100, stats.total) ELSE 0

\* the bars of a breakdown: for each name shown, the count and the total
\* its width count / total is computed from
BarWidths(breakdown, total) ==
  [name \in DOMAIN breakdown |-> [count |-> breakdown[name], total |-> total]]

\* Dashboard's initial stats
InitStats ==
  [total |-> 0, open |-> 0, inProgress |-> 0, resolved |-> 0, closed |-> 0,
   byCategory |-> <<>>, byPriority |-> <<>>, avgResolutionTime |-> "N/A"]

\* the tab's view, mounted and with its first load answered by data
MountView(tab, data) ==
  [activeTab |-> tab, data |-> data,
   tickets |-> IF tab = "dashboard" THEN <<>> ELSE data,
   stats |-> IF tab = "dashboard" THEN DashboardStats(data) ELSE InitStats,
   searchTerm |-> "", selectedCategory |-> "", selectedPriority |-> "",
   selectedStatus |-> "",
   filteredTickets |-> IF tab = "tickets"
                       THEN FilterTickets(data, "", "", "", "") ELSE <<>>,
   startDate |-> "", endDate |-> ""]

\* TicketList's effect on [tickets, searchTerm, selected...]: filterTickets
FilterEffect(v) ==
  [v EXCEPT !.filteredTickets =
     FilterTickets(v.tickets, v.searchTerm, v.selectedCategory,
                   v.selectedPriority, v.selectedStatus)]

Tabs == {"dashboard", "tickets", "reports"}
SearchTerms == {"", "SD-20240101", "printer", "ANN"}
CategoryFilters == {"", "cat-1", "cat-2"}
PriorityFilters == {"", "pri-1", "pri-2"}
StatusFilters == {"", "st-1", "st-4"}
DateInputs == {"", "2024-01-01", "2024-01-15", "2024-01-31", "2024-02-01"}

\* App: a tab button; the tab's view mounts anew and loads
SetActiveTab(tab) ==
  /\ tab # view.activeTab
  /\ view' = MountView(tab, view.data)
  /\ UNCHANGED <<clock, uuid, statuses, tickets, comments, app, form, detail, api>>

\* TicketList: the search box and the three selects
SetSearchTerm(term) ==
  /\ view.activeTab = "tickets"
  /\ view' = FilterEffect([view EXCEPT !.searchTerm = term])
  /\ UNCHANGED <<clock, uuid, statuses, tickets, comments, app, form, detail, api>>

SetSelectedCategory(c) ==
  /\ view.activeTab = "tickets"
  /\ view' = FilterEffect([view EXCEPT !.selectedCategory = c])
  /\ UNCHANGED <<clock, uuid, statuses, tickets, comments, app, form, detail, api>>

SetSelectedPriority(p) ==
  /\ view.activeTab = "tickets"
  /\ view' = FilterEffect([view EXCEPT !.selectedPriority = p])
  /\ UNCHANGED <<clock, uuid, statuses, tickets, comments, app, form, detail, api>>

SetSelectedStatus(st) ==
  /\ view.activeTab = "tickets"
  /\ view' = FilterEffect([view EXCEPT !.selectedStatus = st])
  /\ UNCHANGED <<clock, uuid, statuses, tickets, comments, app, form, detail, api>>

\* Reports: the two date inputs
SetStartDate(d) ==
  /\ view.activeTab = "reports"
  /\ view' = [view EXCEPT !.startDate = d]
  /\ UNCHANGED <<clock, uuid, statuses, tickets, comments, app, form, detail, api>>

SetEndDate(d) ==
  /\ view.activeTab = "reports"
  /\ view' = [view EXCEPT !.endDate = d]
  /\ UNCHANGED <<clock, uuid, statuses, tickets, comments, app, form, detail, api>>

\* App renders the dashboard first, over whatever tickets the store holds
InitViews ==
  /\ clock = 0
  /\ uuid = [tickets |-> 0, comments |-> 0]
  /\ statuses = DefaultStatuses
  /\ tickets = {}
  /\ comments = {}
  /\ app = [s \in Sessions |-> InitApp]
  /\ form = [s \in Sessions |-> InitForm]
  /\ detail = [s \in Sessions |-> InitDetail]
  /\ api = InitApi
  /\ \E data \in Snapshots : view = MountView("dashboard", data)

NextViews ==
  \/ \E tab \in Tabs : SetActiveTab(tab)
  \/ \E term \in SearchTerms : SetSearchTerm(term)
  \/ \E c \in CategoryFilters : SetSelectedCategory(c)
  \/ \E p \in PriorityFilters : SetSelectedPriority(p)
  \/ \E st \in StatusFilters : SetSelectedStatus(st)
  \/ \E d \in DateInputs : SetStartDate(d)
  \/ \E d \in DateInputs : SetEndDate(d)

SpecViews == InitViews /\ [][NextViews]_vars

\* the elements of a list
Elements(list) == {list[i] : i \in 1..Len(list)}

\* ------------------------------------------- the views and their loads
\* A view loads the tickets when it mounts and again at each new
\* refreshTrigger.  The select runs as it is sent; its answer reaches the
\* view after whatever time it takes, answers of several loads in any order.
\* refreshTrigger changes the model lets a view see
MaxRefresh == 2

\* tickets.slice(0, n)
Slice(list, n) == SubSeq(list, 1, IF Len(list) < n THEN Len(list) ELSE n)

\* loadTickets / loadDashboardData up to the await: the request of the
\* load is on its way, its answer is data or an error with no data
IssueLoad(v, fault) ==
  LET load == [n |-> v.refreshTrigger,
               data |-> IF fault = "none" THEN v.data ELSE <<>>,
               error |-> fault]
  IN [v EXCEPT !.loading = TRUE, !.loads = @ \cup {load}, !.latest = load]

\* the tab's view as it mounts: its initial state and its first load sent
MountLoading(tab, data, refreshTrigger, fault) ==
  IssueLoad([activeTab |-> tab, data |-> data, refreshTrigger |-> refreshTrigger,
             tickets |-> <<>>, stats |-> InitStats, loading |-> TRUE,
             log |-> 0, loads |-> {}, latest |-> [n |-> -1]],
            fault)

\* loadTickets / loadDashboardData from the await on.  TicketList logs an
\* error to the console (log counts its lines); Reports and Dashboard read
\* `data` alone.
AfterLoad(v, load) ==
  IF load.error # "none"
  THEN [v EXCEPT !.loading = FALSE,
                 !.log = IF v.activeTab = "tickets" THEN @ + 1 ELSE @]
  ELSE [v EXCEPT !.loading = FALSE,
                 !.tickets = IF v.activeTab = "dashboard"
                             THEN Slice(load.data, 5) ELSE load.data,
                 !.stats = IF v.activeTab = "dashboard"
                           THEN DashboardStats(load.data) ELSE @]

\* App: a tab button; the view of the old tab unmounts and the answers to
\* its loads reach nothing
SwitchTab(tab, fault) ==
  /\ tab # view.activeTab
  /\ view' = MountLoading(tab, view.data, view.refreshTrigger, fault)
  /\ UNCHANGED <<clock, uuid, statuses, tickets, comments, app, form, detail, api>>

\* a ticket newer than the stored ones is created through the form:
\* App.handleTicketCreated adds one to refreshTrigger and the view loads
TicketCreatedRefresh(t, fault) ==
  /\ view.refreshTrigger < MaxRefresh
  /\ \A i \in 1..Len(view.data) : view.data[i].created_at < t.created_at
  /\ view' = IssueLoad([view EXCEPT
                          !.data = OrderByCreatedAtDesc(Elements(view.data) \cup {t}),
                          !.refreshTrigger = @ + 1],
                       fault)
  /\ UNCHANGED <<clock, uuid, statuses, tickets, comments, app, form, detail, api>>

\* the answer to a load reaches the view
LoadResponse(load) ==
  /\ load \in view.loads
  /\ view' = [AfterLoad(view, load) EXCEPT !.loads = @ \ {load}]
  /\ UNCHANGED <<clock, uuid, statuses, tickets, comments, app, form, detail, api>>

InitLoads ==
  /\ clock = 0
  /\ uuid = [tickets |-> 0, comments |-> 0]
  /\ statuses = DefaultStatuses
  /\ tickets = {}
  /\ comments = {}
  /\ app = [s \in Sessions |-> InitApp]
  /\ form = [s \in Sessions |-> InitForm]
  /\ detail = [s \in Sessions |-> InitDetail]
  /\ api = InitApi
  /\ \E data \in Snapshots, fault \in Faults :
       view = MountLoading("dashboard", data, 0, fault)

NextLoads ==
  \/ \E tab \in Tabs, fault \in Faults : SwitchTab(tab, fault)
  \/ \E t \in SampleTickets, fault \in Faults : TicketCreatedRefresh(t, fault)
  \/ \E load \in view.loads : LoadResponse(load)

SpecLoads == InitLoads /\ [][NextLoads]_vars

\* what Reports renders from its state
ReportsFiltered == FilterTicketsByDate(view.tickets, view.startDate, view.endDate)
ReportsMetrics == CalculateMetrics(ReportsFiltered)

\* ------------------------------------------------------------- claims
\* the row of id in rows (a set with that row alone, none when it is gone)
RowsOf(rows, id) == {t \in rows : t.id = id}

\* session s's handler got the answer of its insert / update in this step
SubmitAnswered(s) == form[s].pc = "insert" /\ form'[s].pc # "insert"
SubmitSent(s) == form[s].pc = "idle" /\ form'[s].pc = "insert"
UpdateDone(s) == detail[s].pc \in {"status", "assign"} /\ detail'[s].pc = "idle"
StatusDone(s) == detail[s].pc = "status" /\ detail'[s].pc = "idle"
StatusSent(s) == detail[s].pc = "idle" /\ detail'[s].pc = "status"

\* C1: once a ticket's resolved_at is set, no step clears or changes it
\* (the ticket stays, and its resolved_at is the same after every step).
C1_ResolvedAtKept ==
  [][\A t \in tickets : t.resolved_at # NullTime =>
       \E u \in tickets' : u.id = t.id /\ u.resolved_at = t.resolved_at]_vars

\* C2: once a ticket's closed_at is set, no step clears or changes it.
C2_ClosedAtKept ==
  [][\A t \in tickets : t.closed_at # NullTime =>
       \E u \in tickets' : u.id = t.id /\ u.closed_at = t.closed_at]_vars

\* C3: no two tickets of the store carry the same ticket_number.
C3_NumbersUnique ==
  \A t \in tickets, u \in tickets :
    t.ticket_number = u.ticket_number => t.id = u.id

\* two tickets of one day are stored, under different numbers
C3_Witness ==
  \E t \in tickets, u \in tickets :
    /\ t.id # u.id
    /\ Day(t.created_at) = Day(u.created_at)
    /\ t.ticket_number # u.ticket_number

\* C4: an insert that leaves the number to the count-based policy, made by a
\* single caller one request after the other, never fails on the unique
\* constraint, whatever tickets the store holds.
C4_SequentialNeverCollides ==
  (api.op = "insert" /\ api.req.ticket_number \in {"", NullText})
    => api.error # "unique_violation"

\* C5: two creates of one day that both number their row before either is
\* stored number it alike; the one answered second stores no row, ends in
\* the failure alert with refreshTrigger and the form as they were, and is
\* not sent again: after the alert the form is idle.
C5_RaceLosesOne ==
  [][\A s \in Sessions :
       /\ SubmitSent(s) =>
            \A r \in Sessions \ {s} :
              (/\ form[r].pc = "insert"
               /\ Day(form[r].row.created_at) = Day(form'[s].row.created_at)
               /\ \A t \in tickets : t.ticket_number # form[r].row.ticket_number)
              => form'[s].row.ticket_number = form[r].row.ticket_number
       /\ (/\ SubmitAnswered(s)
           /\ \E t \in tickets : t.ticket_number = form[s].row.ticket_number)
            => /\ tickets' = tickets
               /\ app'[s] = app[s]
               /\ form'[s].pc = "alert"
               /\ form'[s].error \in {"unique_violation", "unavailable"}
       /\ form[s].pc = "alert" => form'[s].pc \in {"alert", "idle"}
    ]_vars

\* a create lost the race: its number is carried by the row another create
\* of the same day stored, and it stands in its failure alert
C5_Witness ==
  \E s \in Sessions :
    /\ form[s].pc = "alert"
    /\ form[s].error = "unique_violation"
    /\ app[s].refreshTrigger = 0
    /\ \E t \in tickets :
         /\ t.ticket_number = form[s].row.ticket_number
         /\ t.id # form[s].row.id
         /\ Day(t.created_at) = Day(form[s].row.created_at)

\* SD-<YYYYMMDD of day d>-<k in 4 digits>, for the days and ranks of the model
ExpectedNumber(d, k) == "SD-2024010" \o ToText(d + 1) \o "-000" \o ToText(k)

\* C6: an insert with an empty or absent ticket_number, on a day whose
\* numbers so far are those of k-1 such inserts made one after the other
\* (none for k = 1), stores SD-<day>-<k in 4 digits>: 0001 first, 0002
\* second; an insert with a non-empty ticket_number stores that number.
C6_SequentialNumbers ==
  [][(api'.op = "insert" /\ api'.at # api.at /\ api'.error = "none") =>
       \E r \in tickets' \ tickets :
         LET d       == Day(r.created_at)
             carried == {t.ticket_number : t \in
                           {u \in tickets :
                              LikePrefix(u.ticket_number,
                                         "SD-2024010" \o ToText(d + 1) \o "-")}}
             k       == Cardinality(carried) + 1
         IN /\ r.created_at = api'.at
            /\ IF api'.req.ticket_number \notin {"", NullText}
               THEN r.ticket_number = api'.req.ticket_number
               ELSE carried = {ExpectedNumber(d, i) : i \in 1..(k - 1)}
                      => r.ticket_number = ExpectedNumber(d, k)
    ]_vars

\* the first two tickets of 2024-01-02 got 0001 and 0002, and a ticket
\* inserted under the number HELP-7 kept it
C6_Witness ==
  /\ \E t \in tickets, u \in tickets :
       /\ t.ticket_number = "SD-20240102-0001"
       /\ u.ticket_number = "SD-20240102-0002"
       /\ t.created_at < u.created_at
       /\ Day(t.created_at) = 1 /\ Day(u.created_at) = 1
  /\ \E t \in tickets : t.ticket_number = "HELP-7"

\* C7: every successful update of a ticket (status or assignment) leaves
\* updated_at strictly greater than before, and equal to the NOW() of the
\* update's transaction.
C7_UpdatedAtIncreases ==
  [][\A s \in Sessions : UpdateDone(s) =>
       \A t \in RowsOf(tickets, detail[s].id) :
         \E u \in RowsOf(tickets', t.id) :
           /\ u.updated_at > t.updated_at
           /\ u.updated_at = detail[s].now]_vars

\* C8: a successful status change to S stamps resolved_at with the time of
\* the change if S is named Resolved and resolved_at is unset, stamps
\* closed_at likewise if S.is_closed and closed_at is unset (both, when S is
\* both), and leaves resolved_at alone when S is not named Resolved and
\* closed_at alone when S is not closed.
C8_StatusStamps ==
  [][\A s \in Sessions :
       /\ StatusSent(s) =>
            \A f \in DOMAIN detail'[s].updates \ {"status_id"} :
              detail'[s].updates[f] = clock' /\ detail'[s].now = clock'
       /\ StatusDone(s) =>
            \A t \in RowsOf(tickets, detail[s].id) :
              \E u \in RowsOf(tickets', t.id) :
                LET S == statuses[detail[s].updates.status_id]
                IN /\ u.status_id = detail[s].updates.status_id
                   /\ (S.name = "Resolved" /\ t.resolved_at = NullTime)
                        => u.resolved_at = detail[s].now
                   /\ (S.is_closed /\ t.closed_at = NullTime)
                        => u.closed_at = detail[s].now
                   /\ S.name # "Resolved" => u.resolved_at = t.resolved_at
                   /\ ~S.is_closed => u.closed_at = t.closed_at
    ]_vars

\* one transition to a status that is named Resolved and is closed stamped
\* both fields with the time of the change
C8_Witness ==
  \E t \in tickets :
    /\ statuses[t.status_id].name = "Resolved"
    /\ statuses[t.status_id].is_closed
    /\ t.resolved_at # NullTime
    /\ t.closed_at = t.resolved_at
    /\ t.updated_at = t.resolved_at

\* C9: the insert a create sends has the status named Open, a number of
\* the day generated by the policy, created_at = updated_at = NOW() and
\* resolved_at and closed_at unset, and a successful create stores that row
\* as it is.
C9_CreatedTicket ==
  [][\A s \in Sessions :
       /\ SubmitSent(s) =>
            LET r == form'[s].row
            IN /\ statuses[r.status_id].name = "Open"
               /\ r.ticket_number = GenerateTicketNumber(tickets, clock')
               /\ r.created_at = clock' /\ r.updated_at = clock'
               /\ r.resolved_at = NullTime /\ r.closed_at = NullTime
       /\ (SubmitAnswered(s) /\ form'[s].pc = "idle")
            => /\ tickets' = tickets \cup {form[s].row}
               /\ form[s].row \notin tickets
    ]_vars

\* a create has succeeded: its session counts one refresh and the list has
\* not been reloaded yet, and the store holds the ticket as created
C9_Witness ==
  \E s \in Sessions :
    /\ app[s].refreshTrigger = 1
    /\ app[s].loadPending /\ app[s].tickets = {}
    /\ ~app[s].showTicketForm
    /\ \E t \in tickets :
         /\ statuses[t.status_id].name = "Open"
         /\ t.created_at = t.updated_at
         /\ t.resolved_at = NullTime /\ t.closed_at = NullTime

\* C10: an insert whose category_id or priority_id references no row, or
\* whose title, requester_name or requester_email is empty, fails and leaves
\* the tickets table as it was.
C10_InvalidCreateFails ==
  [][(/\ api'.op = "insert" /\ api'.at # api.at
      /\ \/ api'.req.category_id \notin DOMAIN Categories
         \/ api'.req.priority_id \notin DOMAIN Priorities
         \/ \E f \in {api'.req.title, api'.req.requester_name,
                      api'.req.requester_email} : f = "")
       => (api'.error # "none" /\ tickets' = tickets)]_vars

\* C11: an update of a ticket's status answers with an error, and changes
\* no ticket row, whenever its ticket id matches no ticket or its status id
\* matches no status.
C11_UnknownIdsFail ==
  [][(/\ api'.op = "update" /\ api'.at # api.at
      /\ \/ \A t \in tickets : t.id # api'.req.id
         \/ api'.req.status_id \notin DOMAIN statuses)
       => (api'.error # "none" /\ tickets' = tickets)]_vars

\* text or author of an addComment is empty after trimming
EmptyComment(req) == Trim(req.comment) = "" \/ Trim(req.author_name) = ""

\* C12: an addComment whose text or author is empty after trimming adds
\* no comment and reports an error; one with both non-empty, when it
\* reports none, adds exactly one comment of that ticket, created at NOW(),
\* and leaves the other comments as they were.
C12_AddCommentValidates ==
  [][(api'.op = "addComment" /\ api' # api) =>
       IF EmptyComment(api'.req)
       THEN comments' = comments /\ api'.error # "none"
       ELSE api'.error = "none" =>
              /\ comments \subseteq comments'
              /\ Cardinality(comments' \ comments) = 1
              /\ \A c \in comments' \ comments :
                   /\ c.ticket_id = api'.req.ticket_id
                   /\ c.comment = api'.req.comment
                   /\ c.author_name = api'.req.author_name
                   /\ c.created_at = clock'
    ]_vars

\* C13: no status update, assignment update or comment changes any
\* ticket's ticket_number: every ticket keeps the number it was stored with.
C13_NumberKept ==
  [][\A t \in tickets :
       \E u \in tickets' : u.id = t.id /\ u.ticket_number = t.ticket_number]_vars

\* a ticket has had its status and its assignee updated since it was stored
C13_Witness ==
  \E t \in tickets :
    /\ t.status_id # "st-1"
    /\ t.assigned_to = "dana"
    /\ t.updated_at > t.created_at

\* session s's handleAddComment sent its insert / got its answer in this step
CommentSent(s) == detail[s].pc = "idle" /\ detail'[s].pc = "comment"
CommentAnswered(s) == detail[s].pc = "comment" /\ detail'[s].pc # "comment"

\* C14: addComment, from its submit to the answer of its insert, changes no
\* field of any ticket row (updated_at, status_id, assigned_to, resolved_at
\* and closed_at included) and leaves the session's refreshTrigger as it was.
C14_CommentLeavesTicket ==
  [][\A s \in Sessions : (CommentSent(s) \/ CommentAnswered(s)) =>
       /\ tickets' = tickets
       /\ app'[s].refreshTrigger = app[s].refreshTrigger]_vars

\* a comment was added to a ticket that no update has touched since it was
\* created
C14_Witness ==
  \E c \in comments : \E t \in tickets :
    /\ t.id = c.ticket_id
    /\ t.updated_at = t.created_at
    /\ c.created_at > t.updated_at
    /\ \A s \in Sessions : app[s].refreshTrigger <= 1

\* C15: a delete of a ticket removes the comments of that ticket and no
\* other comment, and every comment references a ticket that exists.
C15_CascadeExact ==
  /\ [](\A c \in comments : \E t \in tickets : t.id = c.ticket_id)
  /\ [][(api'.op = "delete" /\ tickets' # tickets) =>
          comments' = {c \in comments : c.ticket_id # api'.req.id}]_vars

\* a delete took a ticket's comment with it and left the comment of
\* another ticket
C15_Witness ==
  /\ api.op = "delete"
  /\ comments # {}
  /\ uuid.comments > Cardinality(comments)
  /\ \A t \in tickets : t.id # api.req.id

\* x and y are the same letter, in whatever case, or the same character
SameLetter(x, y) ==
  \/ x = y
  \/ \E i \in 1..26 :
       {x, y} = {SubSeq(UpperCase, i, i), SubSeq(LowerCase, i, i)}

\* term occurs in str, case ignored
OccursIn(term, str) ==
  \E a \in 0..(Len(str) - Len(term)) :
    \A k \in 1..Len(term) :
      SameLetter(SubSeq(str, a + k, a + k), SubSeq(term, k, k))

\* C16: the tickets of the list are exactly the loaded tickets that meet
\* every filter in use (the search text occurs, case ignored, in the
\* number, title, description or requester name; category, priority and
\* status equal the selected ones), a filter left empty excluding nothing,
\* and they stand in the created_at-descending order they were loaded in.
C16_ListFilters ==
  view.activeTab = "tickets" =>
    LET res == view.filteredTickets
    IN /\ Elements(res) =
            {t \in Elements(view.tickets) :
               /\ view.searchTerm = ""
                    \/ \E f \in {t.ticket_number, t.title, t.description,
                                 t.requester_name} :
                         OccursIn(view.searchTerm, f)
               /\ view.selectedCategory \in {"", t.category_id}
               /\ view.selectedPriority \in {"", t.priority_id}
               /\ view.selectedStatus \in {"", t.status_id}}
       /\ \A j \in 1..Len(res), k \in 1..Len(res) :
            j < k => res[j].created_at > res[k].created_at

\* of five loaded tickets, the search ANN with a category selected leaves
\* the two of that category whose requester is Joanna and Ann, newest first
C16_Witness ==
  /\ view.activeTab = "tickets"
  /\ Len(view.tickets) = 5
  /\ view.searchTerm = "ANN" /\ view.selectedCategory = "cat-1"
  /\ view.selectedPriority = "" /\ view.selectedStatus = ""
  /\ Len(view.filteredTickets) = 2
  /\ view.filteredTickets[1].requester_name = "Joanna"
  /\ view.filteredTickets[2].requester_name = "Ann"

\* the calendar day (UTC) of an instant, counted from 2024-01-01
DayOfInstant(ts) == ts \div MinutesPerDay

\* C17: the report's tickets are exactly the loaded tickets created on or
\* after the start date, when one is given, and on or before the end date,
\* when one is given: the range of dates is inclusive at both ends, and
\* with neither date every ticket is in.
C17_DateRangeInclusive ==
  view.activeTab = "reports" =>
    Elements(ReportsFiltered) =
      {t \in Elements(view.tickets) :
         /\ view.startDate = ""
              \/ DayOfInstant(t.created_at) >= DayOfInstant(NewDate(view.startDate))
         /\ view.endDate = ""
              \/ DayOfInstant(t.created_at) <= DayOfInstant(NewDate(view.endDate))}

\* C18: in Reports and in Dashboard the resolved count is the number of
\* the view's tickets with resolved_at set, whatever their status, and the
\* closed count the number of those with closed_at set.
C18_CountsByTimestamp ==
  /\ view.activeTab = "reports" =>
       /\ ReportsMetrics.resolved =
            Cardinality({t \in Elements(ReportsFiltered) : t.resolved_at # NullTime})
       /\ ReportsMetrics.closed =
            Cardinality({t \in Elements(ReportsFiltered) : t.closed_at # NullTime})
  /\ view.activeTab = "dashboard" =>
       /\ view.stats.resolved =
            Cardinality({t \in Elements(view.data) : t.resolved_at # NullTime})
       /\ view.stats.closed =
            Cardinality({t \in Elements(view.data) : t.closed_at # NullTime})

RECURSIVE MinutesToResolve(_)
\* the minutes from created_at to resolved_at, summed over a set of tickets
MinutesToResolve(rows) ==
  IF rows = {} THEN 0
  ELSE LET t == CHOOSE t \in rows : TRUE
       IN (t.resolved_at - t.created_at) + MinutesToResolve(rows \ {t})

\* h is the whole number of hours nearest to the mean time to resolve rows
NearestHour(h, rows) ==
  LET n == Cardinality(rows)
      d == MinutesToResolve(rows) - 60 * h * n
  IN 2 * d <= 60 * n /\ 2 * (0 - d) <= 60 * n

\* C19: the average resolution a view shows is "not applicable" exactly
\* when none of its tickets has resolved_at set; otherwise it is the mean
\* of resolved_at - created_at over those that have, in whole hours,
\* rounded to the nearest (0 hours included).
C19_AverageResolution ==
  /\ view.activeTab = "reports" =>
       LET rows == {t \in Elements(ReportsFiltered) : t.resolved_at # NullTime}
       IN IF rows = {} THEN AvgResolutionCard(ReportsMetrics) = "N/A"
          ELSE \E h \in 0..24 :
                 /\ AvgResolutionCard(ReportsMetrics) = ToText(h) \o "h"
                 /\ NearestHour(h, rows)
  /\ view.activeTab = "dashboard" =>
       LET rows == {t \in Elements(view.data) : t.resolved_at # NullTime}
       IN IF rows = {} THEN view.stats.avgResolutionTime = "N/A"
          ELSE \E h \in 0..24 :
                 /\ view.stats.avgResolutionTime = ToText(h) \o " hours"
                 /\ NearestHour(h, rows)

\* p is the percentage part / total to the nearest whole number, 0 for no
\* total
Percentage(p, part, total) ==
  IF total = 0 THEN p = 0
  ELSE 2 * (100 * part - p * total) <= total
       /\ 2 * (p * total - 100 * part) <= total

\* C20: the resolution rate a view shows is the tickets with resolved_at
\* set over the total, the closure rate those with closed_at set over the
\* total, both 0 for no tickets; and no bar of a breakdown divides by a
\* total of 0.
C20_Rates ==
  /\ view.activeTab = "reports" =>
       LET rows == Elements(ReportsFiltered)
       IN /\ Percentage(ReportsResolutionRate(ReportsMetrics),
                        Cardinality({t \in rows : t.resolved_at # NullTime}),
                        Cardinality(rows))
          /\ Percentage(ReportsClosureRate(ReportsMetrics),
                        Cardinality({t \in rows : t.closed_at # NullTime}),
                        Cardinality(rows))
          /\ \A b \in {BarWidths(ReportsMetrics.byCategory, ReportsMetrics.total),
                       BarWidths(ReportsMetrics.byPriority, ReportsMetrics.total)} :
               \A name \in DOMAIN b : b[name].total # 0
  /\ view.activeTab = "dashboard" =>
       LET rows == Elements(view.data)
       IN /\ Percentage(DashboardResolutionRate(view.stats),
                        Cardinality({t \in rows : t.resolved_at # NullTime}),
                        Cardinality(rows))
          /\ \A b \in {BarWidths(view.stats.byCategory, view.stats.total),
                       BarWidths(view.stats.byPriority, view.stats.total)} :
               \A name \in DOMAIN b : b[name].total # 0

RECURSIVE SumOfCounts(_)
\* the sum of the counts of a breakdown
SumOfCounts(breakdown) ==
  IF DOMAIN breakdown = {} THEN 0
  ELSE LET name == CHOOSE name \in DOMAIN breakdown : TRUE
       IN breakdown[name]
          + SumOfCounts([n \in DOMAIN breakdown \ {name} |-> breakdown[n]])

\* breakdown counts the rows by their field: a key for each value that
\* occurs, the number of rows with it (at least one), total in all
BreaksDown(breakdown, rows, field, total) ==
  /\ DOMAIN breakdown = {t[field] : t \in rows}
  /\ \A name \in DOMAIN breakdown :
       /\ breakdown[name] >= 1
       /\ breakdown[name] = Cardinality({t \in rows : t[field] = name})
  /\ SumOfCounts(breakdown) = total
  /\ total = Cardinality(rows)

\* C21: in Reports and in Dashboard the by-category and by-priority
\* breakdowns have a key for exactly the names that occur among the view's
\* tickets, each count is the number of tickets with that name and at
\* least 1, and the counts of a breakdown sum to total.
C21_Breakdowns ==
  /\ view.activeTab = "reports" =>
       /\ BreaksDown(ReportsMetrics.byCategory, Elements(ReportsFiltered),
                     "categories", ReportsMetrics.total)
       /\ BreaksDown(ReportsMetrics.byPriority, Elements(ReportsFiltered),
                     "priorities", ReportsMetrics.total)
  /\ view.activeTab = "dashboard" =>
       /\ BreaksDown(view.stats.byCategory, Elements(view.data),
                     "categories", view.stats.total)
       /\ BreaksDown(view.stats.byPriority, Elements(view.data),
                     "priorities", view.stats.total)

\* a report over a range of dates that leaves some loaded tickets out and
\* keeps tickets of two categories
C21_Witness ==
  /\ view.activeTab = "reports"
  /\ view.startDate # ""
  /\ Len(ReportsFiltered) < Len(view.tickets)
  /\ Len(ReportsFiltered) >= 3
  /\ Cardinality(DOMAIN ReportsMetrics.byCategory) >= 2
  /\ \E name \in DOMAIN ReportsMetrics.byPriority :
       ReportsMetrics.byPriority[name] >= 2

\* C29: the end bound of the report is the first instant of the end date:
\* a ticket created later on that day is left out; a ticket created on
\* the start date, at whatever time, is in (if the end bound lets it).
C29_EndBoundIsStartOfDay ==
  view.activeTab = "reports" =>
    \A t \in Elements(view.tickets) :
      /\ (/\ view.endDate # ""
          /\ DayOfInstant(t.created_at) = DayOfInstant(NewDate(view.endDate))
          /\ t.created_at > NewDate(view.endDate))
           => t \notin Elements(ReportsFiltered)
      /\ (/\ view.startDate # ""
          /\ DayOfInstant(t.created_at) = DayOfInstant(NewDate(view.startDate))
          /\ view.endDate = "" \/ t.created_at <= NewDate(view.endDate))
           => t \in Elements(ReportsFiltered)

\* the report from 2024-01-15 to 2024-01-31 shows the ticket of 01-15
\* 10:00 and not the ticket of 01-31 10:00
C29_Witness ==
  /\ view.activeTab = "reports"
  /\ view.startDate = "2024-01-15" /\ view.endDate = "2024-01-31"
  /\ {t.id : t \in Elements(view.tickets)} = {1, 2, 3, 4, 5}
  /\ {t.id : t \in Elements(ReportsFiltered)} = {2}

\* C24: an assignment update writes assigned_to only and a status update
\* status_id, resolved_at and closed_at only (and the trigger updated_at):
\* the stored row takes the values of the update that is applied and keeps
\* every other column, whatever other sessions wrote in between, so
\* interleaved updates of different columns both stay and of two updates
\* of one column the later write stays.
C24_UpdatesWriteTheirColumns ==
  [][\A s \in Sessions :
       UpdateDone(s) =>
         LET u  == detail[s].updates
             id == detail[s].id
         IN /\ detail[s].pc = "assign" => DOMAIN u = {"assigned_to"}
            /\ detail[s].pc = "status" =>
                 /\ "status_id" \in DOMAIN u
                 /\ DOMAIN u \subseteq {"status_id", "resolved_at", "closed_at"}
            /\ \A t \in RowsOf(tickets, id) :
                 \E n \in RowsOf(tickets', id) :
                   \A c \in DOMAIN t :
                     n[c] = IF c \in DOMAIN u THEN u[c]
                            ELSE IF c = "updated_at" THEN detail[s].now
                            ELSE t[c]
            /\ \A t \in tickets : t.id # id => t \in tickets']_vars

\* a status update sent at tick 2 was applied after an assignment sent at
\* tick 3 had been applied: the row has both
C24_Witness ==
  /\ clock = 3
  /\ \E t \in tickets :
       /\ t.status_id = "st-4" /\ t.resolved_at = 2 /\ t.updated_at = 2
       /\ t.assigned_to = "dana"
  /\ \A s \in Sessions : app[s].refreshTrigger >= 1

\* C25: a createTicket, updateStatus or updateAssignment that succeeds adds
\* exactly one to the session's refreshTrigger and makes its list load
\* again, one that fails leaves refreshTrigger as it is (nothing else
\* changes it), and an update that succeeds closes the detail view.
C25_RefreshTrigger ==
  [][\A s \in Sessions :
       LET created == SubmitAnswered(s) /\ form'[s].pc = "idle"
           updated == UpdateDone(s)
       IN /\ created \/ updated =>
               /\ app'[s].refreshTrigger = app[s].refreshTrigger + 1
               /\ app'[s].loadPending
          /\ updated => app'[s].selectedTicket = NoTicket
          /\ ~(created \/ updated) =>
               app'[s].refreshTrigger = app[s].refreshTrigger]_vars

\* a session has created a ticket and updated it: refreshTrigger is 2, no
\* detail view is open and the list is about to load
C25_Witness ==
  \E s \in Sessions :
    /\ app[s].refreshTrigger = 2
    /\ app[s].selectedTicket = NoTicket
    /\ app[s].loadPending
    /\ \E t \in tickets : t.updated_at > t.created_at
    /\ \E r \in Sessions : detail[r].pc = "alert"

\* C30: in a detail view loading is true while a mutation is in flight (and
\* while its alert is open), no second mutation starts until it has ended,
\* and loading is false again once it has ended, with whatever outcome.
C30_OneMutationAtATime ==
  [][\A s \in Sessions :
       /\ detail[s].pc \in {"status", "assign", "comment"} =>
            /\ detail[s].loading
            /\ \/ detail'[s] = detail[s]
               \/ detail'[s].pc \in {"idle", "alert"}
       /\ detail[s].pc = "alert" =>
            /\ detail[s].loading
            /\ detail'[s] = detail[s] \/ detail'[s].pc = "idle"
       /\ detail'[s].pc = "idle" => ~detail'[s].loading]_vars

\* a comment is in flight in a detail view that is still open
C30_Witness ==
  \E s \in Sessions :
    /\ detail[s].pc = "comment" /\ detail[s].loading
    /\ app[s].selectedTicket # NoTicket
    /\ \E t \in tickets : t.assigned_to = "dana"

\* C26: whatever the sessions and their interleaving, a stored ticket
\* whose status is named 'Resolved' has resolved_at set and one whose
\* status has is_closed has closed_at set.
C26_StampsOfStatus ==
  \A t \in tickets :
    /\ statuses[t.status_id].name = "Resolved" => t.resolved_at # NullTime
    /\ statuses[t.status_id].is_closed => t.closed_at # NullTime

\* a ticket was resolved and then closed
C26_Witness ==
  \E t \in tickets :
    /\ statuses[t.status_id].is_closed
    /\ statuses[t.status_id].name # "Resolved"
    /\ t.resolved_at # NullTime
    /\ t.closed_at > t.resolved_at

\* handleSubmit has begun in the session's form
SubmitBegun(s) == form[s].pc = "idle" /\ form'[s].pc \in {"insert", "alert"}

\* C28: when no status is named 'Open', handleSubmit inserts nothing and
\* calls neither onSuccess nor onClose (refreshTrigger and the open form
\* stay as they are), and loading is false once handleSubmit has ended,
\* here and after every other outcome.
C28_NoOpenStatus ==
  [][\A s \in Sessions :
       /\ SubmitBegun(s) /\ OpenStatusIds = {} =>
            /\ form'[s].pc = "alert" /\ form'[s].row = NoRequest
            /\ tickets' = tickets /\ uuid' = uuid /\ app' = app
       /\ form[s].pc = "alert" /\ form[s].error = "no_open_status" =>
            /\ tickets' = tickets
            /\ app'[s].refreshTrigger = app[s].refreshTrigger
            /\ app'[s].showTicketForm /\ app[s].showTicketForm
            /\ form'[s] = form[s] \/ form'[s] = InitForm
       /\ form'[s].pc = "idle" => ~form'[s].loading]_vars

\* the alert 'Could not find Open status' is open over the form
C28_Witness ==
  \E s \in Sessions :
    /\ OpenStatusIds = {}
    /\ form[s].pc = "alert" /\ form[s].error = "no_open_status"
    /\ app[s].showTicketForm /\ app[s].refreshTrigger = 0
    /\ tickets = {}

\* C23: when 9999 tickets are numbered for the day, the next create gets
\* the number with the five-digit suffix 10000, neither cut nor refused:
\* the create succeeds and its number differs from every stored one.
C23_RollsOverTo10000 ==
  [][api.req.count = 9999 /\ api'.op = "insert" /\ uuid' # uuid
     => /\ api'.error = "none"
        /\ api'.req.count = 10000
        /\ api'.req.ticket_number = "SD-20240101-10000"
        /\ ~BusyDayHas(9999, api'.req.ticket_number)]_vars

\* what a view holds of a load once it has answered
Component(v) ==
  [tickets |-> v.tickets, stats |-> v.stats, loading |-> v.loading, log |-> v.log]

\* C22: an error of a load is surfaced: the view that got it is not in the
\* state an answer without error would have left it in, were that answer
\* what the view shows already (the empty result, at the first load).
C22_LoadErrorsSurface ==
  [][\A load \in view.loads :
       (/\ load.error # "none"
        /\ view' = [AfterLoad(view, load) EXCEPT !.loads = @ \ {load}])
       => Component(view') #
            Component(AfterLoad(view, [load EXCEPT !.error = "none",
                                                   !.data = view.tickets]))]_vars

\* C27: once the answers of all the loads a view sent have arrived, the
\* view holds the answer of the load it sent last (if that load brought
\* one), never that of an earlier load.
C27_LatestLoadWins ==
  (view.loads = {} /\ view.latest.error = "none") =>
    Component(view) =
      Component(AfterLoad([view EXCEPT !.loading = TRUE], view.latest))

====
